---- MODULE Spec2Model ----
(***************************************************************************)
(* Event scheduling and resource allocation backend: the stored tables     *)
(* (event, resource, event_resource_allocation), the request handlers of   *)
(* routes/events.py, routes/resources.py and routes/allocations.py, and    *)
(* the conflict checker of utils/conflict.py.                              *)
(*                                                                         *)
(* resp is the response the server is returning to the client, NoResponse  *)
(* between requests: under Spec the requests are served one at a time.     *)
(* Under SpecConc two request threads run create_allocation and            *)
(* create_batch_allocations with their check and commit steps interleaved; *)
(* pc, req and res are the threads' positions, requests and responses.     *)
(*                                                                         *)
(* Time is counted in ticks of HoursPerTick hours, so that the 24 hour     *)
(* limit of validate_event_time is reached inside a small time domain.     *)
(* Primary keys are SQLite INTEGER PRIMARY KEY columns: a new row gets the *)
(* largest key of the table plus one.  Foreign keys are declared but not   *)
(* enforced by the default SQLite connection.                              *)
(***************************************************************************)
EXTENDS Integers, Sequences, FiniteSets, TLC

VARIABLES events, resources, allocations, resp, pc, req, res

vars == <<events, resources, allocations, resp, pc, req, res>>

stored == <<events, resources, allocations>>

-----------------------------------------------------------------------------
(* Bounds of the model *)

MaxTime == 3

MaxEvents == 2

MaxResources == 2

MaxBatch == 2

MaxAllocId == 3

HoursPerTick == 12

(* Program constant: the duration limit of validate_event_time, in hours *)
MaxDurationHours == 24

Times == 0..MaxTime

EventIds == 1..MaxEvents

ResourceIds == 1..MaxResources

Titles == {"A"}

(* description defaults to '' when the JSON body of create_event has none *)
Descriptions == {""}

Names == {"room", "lab"}

Workers == {1, 2}

(* None / an absent or falsy JSON value *)
None == 0

(* A key that is absent from the JSON body of update_event *)
NoTitle == "None"

NoDescription == "None"

NoTime == -1
NoName == "None"
NoType == "None"

-----------------------------------------------------------------------------
(* Helpers *)

RECURSIVE SetMax(_)
SetMax(S) ==
    IF S = {} THEN 0
    ELSE LET x == CHOOSE y \in S : TRUE
             m == SetMax(S \ {x})
         IN  IF x > m THEN x ELSE m

(* Integer primary key of a new row: largest key in the table plus one *)
NextId(keys) == SetMax(keys) + 1

Range(s) == {s[i] : i \in DOMAIN s}

(* Rows of a set of allocation rows in storage (primary key) order *)
InKeyOrderFirst(rows) ==
    IF rows = {} THEN <<>>
    ELSE <<CHOOSE a \in rows : \A b \in rows : a.allocation_id <= b.allocation_id>>

RECURSIVE InKeyOrder(_)
InKeyOrder(rows) ==
    IF rows = {} THEN <<>>
    ELSE LET first == CHOOSE a \in rows :
                          \A b \in rows : a.allocation_id <= b.allocation_id
         IN  <<first>> \o InKeyOrder(rows \ {first})

BatchLists == UNION {[1..n -> ResourceIds] : n \in 1..MaxBatch}

-----------------------------------------------------------------------------
(* utils/conflict.py *)

validate_event_time_rejects_limit(start_time, end_time) ==
    IF start_time >= end_time
    THEN [is_valid |-> FALSE, error |-> "Start time must be before end time"]
    ELSE IF (end_time - start_time) * HoursPerTick >= MaxDurationHours
    THEN [is_valid |-> FALSE, error |-> "Event duration cannot exceed 24 hours"]
    ELSE [is_valid |-> TRUE, error |-> "None"]

validate_event_time_allows_empty(start_time, end_time) ==
    IF start_time > end_time
    THEN [is_valid |-> FALSE, error |-> "Start time must be before end time"]
    ELSE IF (end_time - start_time) * HoursPerTick > MaxDurationHours
    THEN [is_valid |-> FALSE, error |-> "Event duration cannot exceed 24 hours"]
    ELSE [is_valid |-> TRUE, error |-> "None"]

validate_event_time(start_time, end_time) ==
    IF start_time >= end_time
    THEN [is_valid |-> FALSE, error |-> "Start time must be before end time"]
    ELSE IF (end_time - start_time) * HoursPerTick > MaxDurationHours
    THEN [is_valid |-> FALSE, error |-> "Event duration cannot exceed 24 hours"]
    ELSE [is_valid |-> TRUE, error |-> "None"]

(* The time filter of the query: the existing event starts before our end *)
(* and ends after our start                                               *)
OverlapFilterLax(ev, start_time, end_time) ==
    /\ ev.start_time <= end_time
    /\ ev.end_time >= start_time

OverlapFilterEndOnly(ev, start_time, end_time) ==
    /\ ev.start_time < end_time
    /\ ev.end_time > end_time

OverlapFilter(ev, start_time, end_time) ==
    /\ ev.start_time < end_time
    /\ ev.end_time > start_time

ConflictQueryNoExclude(resource_id, start_time, end_time, exclude_event_id) ==
    {a \in allocations :
        /\ a.event_id \in DOMAIN events
        /\ a.resource_id = resource_id
        /\ OverlapFilter(events[a.event_id], start_time, end_time)}

ConflictQuery(resource_id, start_time, end_time, exclude_event_id) ==
    {a \in allocations :
        /\ a.event_id \in DOMAIN events
        /\ a.resource_id = resource_id
        /\ OverlapFilter(events[a.event_id], start_time, end_time)
        /\ (exclude_event_id # None => a.event_id # exclude_event_id)}

ConflictDetail(a, resource_id) ==
    [event_id    |-> a.event_id,
     title       |-> events[a.event_id].title,
     start_time  |-> events[a.event_id].start_time,
     end_time    |-> events[a.event_id].end_time,
     resource_id |-> resource_id]

check_resource_conflict_unguarded(resource_id, start_time, end_time, exclude_event_id) ==
    LET rows == InKeyOrder(ConflictQuery(resource_id, start_time, end_time,
                                         exclude_event_id))
    IN  IF Len(rows) = 0
        THEN [is_available |-> TRUE, conflicts |-> <<>>]
        ELSE [is_available |-> FALSE,
              conflicts |-> [i \in DOMAIN rows |->
                                ConflictDetail(rows[i], resource_id)]]

check_resource_conflict(resource_id, start_time, end_time, exclude_event_id) ==
    IF start_time >= end_time
    THEN [is_available |-> FALSE,
          conflicts |-> <<[error |-> "Start time must be before end time"]>>]
    ELSE LET rows == InKeyOrder(ConflictQuery(resource_id, start_time, end_time,
                                              exclude_event_id))
         IN  IF Len(rows) = 0
             THEN [is_available |-> TRUE, conflicts |-> <<>>]
             ELSE [is_available |-> FALSE,
                   conflicts |-> [i \in DOMAIN rows |->
                                     ConflictDetail(rows[i], resource_id)]]

(* The loop over resource_ids: results[resource_id] is set on each turn *)
RECURSIVE CheckEachUntilConflict(_, _, _, _, _)
CheckEachUntilConflict(resource_ids, start_time, end_time, exclude_event_id, results) ==
    IF resource_ids = <<>> THEN results
    ELSE LET resource_id == Head(resource_ids)
             c == check_resource_conflict(resource_id, start_time, end_time,
                                          exclude_event_id)
             set == [r \in DOMAIN results \cup {resource_id} |->
                        IF r = resource_id THEN c ELSE results[r]]
         IN  IF ~c.is_available THEN set
             ELSE CheckEachUntilConflict(Tail(resource_ids), start_time, end_time,
                                         exclude_event_id, set)

RECURSIVE CheckEach(_, _, _, _, _)
CheckEach(resource_ids, start_time, end_time, exclude_event_id, results) ==
    IF resource_ids = <<>> THEN results
    ELSE LET resource_id == Head(resource_ids)
             c == check_resource_conflict(resource_id, start_time, end_time,
                                          exclude_event_id)
         IN  CheckEach(Tail(resource_ids), start_time, end_time, exclude_event_id,
                       [r \in DOMAIN results \cup {resource_id} |->
                           IF r = resource_id THEN c ELSE results[r]])

check_multiple_resources_conflict(resource_ids, start_time, end_time, exclude_event_id) ==
    CheckEach(resource_ids, start_time, end_time, exclude_event_id, <<>>)

-----------------------------------------------------------------------------
(* models.py *)

(* Rows of event_resource_allocation with the given (event_id, resource_id), *)
(* the pair the unique_event_resource constraint is declared on              *)
RowsForNone(allocs, event_id, resource_id) == {}

RowsFor(allocs, event_id, resource_id) ==
    {a \in allocs : a.event_id = event_id /\ a.resource_id = resource_id}

NewAllocationSwapped(allocs, event_id, resource_id) ==
    [allocation_id |-> NextId({a.allocation_id : a \in allocs}),
     event_id      |-> resource_id,
     resource_id   |-> event_id]

NewAllocation(allocs, event_id, resource_id) ==
    [allocation_id |-> NextId({a.allocation_id : a \in allocs}),
     event_id      |-> event_id,
     resource_id   |-> resource_id]

(* INSERT of one row: rejected by unique_event_resource when the pair exists *)
UniqueViolationUnenforced(allocs, event_id, resource_id) == FALSE

UniqueViolation(allocs, event_id, resource_id) ==
    RowsFor(allocs, event_id, resource_id) # {}

-----------------------------------------------------------------------------
(* Requests and responses *)

(* jsonify(...) with its status code; op and args echo the request served *)
Response(op, args, status, error, body) ==
    [op |-> op, args |-> args, status |-> status, error |-> error, body |-> body]

NoResponse == Response("none", <<>>, 0, "", <<>>)

NoRequest == [op |-> "none", event_id |-> None, resource_ids |-> <<>>,
              allocated |-> <<>>]

Init ==
    /\ events = <<>>
    /\ resources = <<>>
    /\ allocations = {}
    /\ resp = NoResponse
    /\ pc = [w \in Workers |-> "idle"]
    /\ req = [w \in Workers |-> NoRequest]
    /\ res = [w \in Workers |-> NoResponse]

(* The response leaves the server, which is then ready for the next request *)
send_response ==
    /\ resp # NoResponse
    /\ resp' = NoResponse
    /\ UNCHANGED <<events, resources, allocations, pc, req, res>>

-----------------------------------------------------------------------------
(* routes/events.py *)

create_event(title, description, start_time, end_time) ==
    LET args == <<title, description, start_time, end_time>>
        v == validate_event_time(start_time, end_time)
        id == NextId(DOMAIN events)
    IN  /\ IF ~v.is_valid
           THEN /\ resp' = Response("create_event", args, 400, v.error, <<>>)
                /\ UNCHANGED stored
           ELSE /\ id <= MaxEvents
                /\ events' = [e \in DOMAIN events \cup {id} |->
                                IF e = id
                                THEN [title |-> title, description |-> description,
                                      start_time |-> start_time,
                                      end_time |-> end_time]
                                ELSE events[e]]
                /\ resp' = Response("create_event", args, 201, "", [event_id |-> id])
                /\ UNCHANGED <<resources, allocations>>
        /\ UNCHANGED <<pc, req, res>>

(* The event table after update_event returns without db.session.commit(): *)
(* the edits made to the session's event object are discarded with the     *)
(* session when the request ends.                                          *)
return_without_commit_flushed(table, event_id, edited) ==
    [table EXCEPT ![event_id] = edited]

return_without_commit(table, event_id, edited) == table

(* title, description, start_time, end_time: the value of the key, or     *)
(* NoTitle / NoDescription / NoTime when the JSON body does not have it.  *)
update_event(event_id, title, description, start_time, end_time) ==
    LET args == <<event_id, title, description, start_time, end_time>> IN
    /\ IF event_id \notin DOMAIN events
       THEN /\ resp' = Response("update_event", args, 404, "Event not found", <<>>)
            /\ UNCHANGED stored
       ELSE LET event == events[event_id]
                edited == [event EXCEPT
                              !.title = IF title # NoTitle THEN title ELSE @,
                              !.description = IF description # NoDescription
                                              THEN description ELSE @]
                s == IF start_time # NoTime THEN start_time ELSE event.start_time
                e == IF end_time # NoTime THEN end_time ELSE event.end_time
                v == validate_event_time(s, e)
            IN  IF start_time # NoTime \/ end_time # NoTime
                THEN IF ~v.is_valid
                     THEN /\ resp' = Response("update_event", args, 400, v.error, <<>>)
                          /\ events' = return_without_commit(events, event_id, edited)
                          /\ UNCHANGED <<resources, allocations>>
                     ELSE /\ events' = [events EXCEPT ![event_id] =
                                           [edited EXCEPT !.start_time = s,
                                                          !.end_time = e]]
                          /\ resp' = Response("update_event", args, 200, "", <<>>)
                          /\ UNCHANGED <<resources, allocations>>
                ELSE /\ events' = [events EXCEPT ![event_id] = edited]
                     /\ resp' = Response("update_event", args, 200, "", <<>>)
                     /\ UNCHANGED <<resources, allocations>>
    /\ UNCHANGED <<pc, req, res>>

(* Event.allocations is declared cascade='all, delete-orphan' *)
delete_event_no_cascade(event_id) ==
    /\ IF event_id \notin DOMAIN events
       THEN /\ resp' = Response("delete_event", <<event_id>>, 404, "Event not found", <<>>)
            /\ UNCHANGED stored
       ELSE /\ events' = [e \in DOMAIN events \ {event_id} |-> events[e]]
            /\ resp' = Response("delete_event", <<event_id>>, 200, "", <<>>)
            /\ UNCHANGED <<resources, allocations>>
    /\ UNCHANGED <<pc, req, res>>

delete_event(event_id) ==
    /\ IF event_id \notin DOMAIN events
       THEN /\ resp' = Response("delete_event", <<event_id>>, 404, "Event not found", <<>>)
            /\ UNCHANGED stored
       ELSE /\ events' = [e \in DOMAIN events \ {event_id} |-> events[e]]
            /\ allocations' = {a \in allocations : a.event_id # event_id}
            /\ resp' = Response("delete_event", <<event_id>>, 200, "", <<>>)
            /\ UNCHANGED resources
    /\ UNCHANGED <<pc, req, res>>

-----------------------------------------------------------------------------
(* routes/resources.py.  A resource is its resource_name; resource_type is *)
(* validated and stored by the handlers and read by no other handler.      *)

valid_types == {"room", "instructor", "equipment"}

(* str.lower() on the type strings the requests carry *)
lower(resource_type) == IF resource_type = "Room" THEN "room" ELSE resource_type

(* resource_name, resource_type: the value of the key; "" stands for an *)
(* empty or missing value, which data.get() reads as false              *)
create_resource(resource_name, resource_type) ==
    LET args == <<resource_name, resource_type>>
        id == NextId(DOMAIN resources)
    IN
    /\ IF resource_name = "" \/ resource_type = ""
       THEN /\ resp' = Response("create_resource", args, 400,
                                "Missing required fields", <<>>)
            /\ UNCHANGED stored
       ELSE IF lower(resource_type) \notin valid_types
       THEN /\ resp' = Response("create_resource", args, 400,
                                "Invalid resource_type", <<>>)
            /\ UNCHANGED stored
       ELSE IF \E r \in DOMAIN resources : resources[r].resource_name = resource_name
       THEN /\ resp' = Response("create_resource", args, 409,
                                "Resource with this name already exists", <<>>)
            /\ UNCHANGED stored
       ELSE /\ id <= MaxResources
            /\ resources' = [r \in DOMAIN resources \cup {id} |->
                                IF r = id THEN [resource_name |-> resource_name]
                                ELSE resources[r]]
            /\ resp' = Response("create_resource", args, 201, "",
                                [resource_id |-> id])
            /\ UNCHANGED <<events, allocations>>
    /\ UNCHANGED <<pc, req, res>>

(* resource_name, resource_type: the value of the key, or NoName / NoType *)
(* when the JSON body does not have it.  The name of a request that is    *)
(* answered 400 was set on the session's object only.                     *)
update_resource_unchecked(resource_id, resource_name, resource_type) ==
    LET args == <<resource_id, resource_name, resource_type>> IN
    /\ IF resource_id \notin DOMAIN resources
       THEN /\ resp' = Response("update_resource", args, 404, "Resource not found", <<>>)
            /\ UNCHANGED stored
       ELSE LET edited == [resources[resource_id] EXCEPT
                              !.resource_name = IF resource_name # NoName
                                                THEN resource_name ELSE @]
            IN  IF resource_type # NoType /\ lower(resource_type) \notin valid_types
                THEN /\ resp' = Response("update_resource", args, 400,
                                         "Invalid resource_type", <<>>)
                     /\ resources' = return_without_commit(resources, resource_id, edited)
                     /\ UNCHANGED <<events, allocations>>
                ELSE /\ resources' = [resources EXCEPT ![resource_id] = edited]
                     /\ resp' = Response("update_resource", args, 200, "", <<>>)
                     /\ UNCHANGED <<events, allocations>>
    /\ UNCHANGED <<pc, req, res>>

update_resource(resource_id, resource_name, resource_type) ==
    LET args == <<resource_id, resource_name, resource_type>> IN
    /\ IF resource_id \notin DOMAIN resources
       THEN /\ resp' = Response("update_resource", args, 404, "Resource not found", <<>>)
            /\ UNCHANGED stored
       ELSE IF /\ resource_name # NoName
               /\ \E r \in DOMAIN resources \ {resource_id} :
                      resources[r].resource_name = resource_name
       THEN /\ resp' = Response("update_resource", args, 409,
                                "Another resource with this name already exists", <<>>)
            /\ UNCHANGED stored
       ELSE LET edited == [resources[resource_id] EXCEPT
                              !.resource_name = IF resource_name # NoName
                                                THEN resource_name ELSE @]
            IN  IF resource_type # NoType /\ lower(resource_type) \notin valid_types
                THEN /\ resp' = Response("update_resource", args, 400,
                                         "Invalid resource_type", <<>>)
                     /\ resources' = return_without_commit(resources, resource_id, edited)
                     /\ UNCHANGED <<events, allocations>>
                ELSE /\ resources' = [resources EXCEPT ![resource_id] = edited]
                     /\ resp' = Response("update_resource", args, 200, "", <<>>)
                     /\ UNCHANGED <<events, allocations>>
    /\ UNCHANGED <<pc, req, res>>

delete_resource_unguarded(resource_id) ==
    /\ IF resource_id \notin DOMAIN resources
       THEN /\ resp' = Response("delete_resource", <<resource_id>>, 404,
                                "Resource not found", <<>>)
            /\ UNCHANGED stored
       ELSE /\ resources' = [r \in DOMAIN resources \ {resource_id} |-> resources[r]]
            /\ resp' = Response("delete_resource", <<resource_id>>, 200, "", <<>>)
            /\ UNCHANGED <<events, allocations>>
    /\ UNCHANGED <<pc, req, res>>

delete_resource_cascading(resource_id) ==
    /\ IF resource_id \notin DOMAIN resources
       THEN /\ resp' = Response("delete_resource", <<resource_id>>, 404,
                                "Resource not found", <<>>)
            /\ UNCHANGED stored
       ELSE /\ resources' = [r \in DOMAIN resources \ {resource_id} |-> resources[r]]
            /\ allocations' = {a \in allocations : a.resource_id # resource_id}
            /\ resp' = Response("delete_resource", <<resource_id>>, 200, "", <<>>)
            /\ UNCHANGED events
    /\ UNCHANGED <<pc, req, res>>

delete_resource(resource_id) ==
    /\ IF resource_id \notin DOMAIN resources
       THEN /\ resp' = Response("delete_resource", <<resource_id>>, 404,
                                "Resource not found", <<>>)
            /\ UNCHANGED stored
       ELSE IF {a \in allocations : a.resource_id = resource_id} # {}
       THEN /\ resp' = Response("delete_resource", <<resource_id>>, 400,
                                "Cannot delete resource", <<>>)
            /\ UNCHANGED stored
       ELSE /\ resources' = [r \in DOMAIN resources \ {resource_id} |-> resources[r]]
            /\ resp' = Response("delete_resource", <<resource_id>>, 200, "", <<>>)
            /\ UNCHANGED <<events, allocations>>
    /\ UNCHANGED <<pc, req, res>>

-----------------------------------------------------------------------------
(* routes/allocations.py: create_allocation *)

(* Everything the handler decides before it adds the allocation; proceed is *)
(* TRUE when it goes on to add it                                           *)
create_allocation_check_conflict_first(event_id, resource_id) ==
    LET args == <<event_id, resource_id>> IN
    IF event_id = None \/ resource_id = None
    THEN [proceed |-> FALSE,
          resp |-> Response("allocate", args, 400, "Missing required fields", <<>>)]
    ELSE IF event_id \notin DOMAIN events
    THEN [proceed |-> FALSE,
          resp |-> Response("allocate", args, 404, "Event not found", <<>>)]
    ELSE IF RowsFor(allocations, event_id, resource_id) # {}
    THEN [proceed |-> FALSE,
          resp |-> Response("allocate", args, 409,
                            "This resource is already allocated to this event", <<>>)]
    ELSE LET c == check_resource_conflict(resource_id, events[event_id].start_time,
                                          events[event_id].end_time, None)
         IN  IF ~c.is_available
             THEN [proceed |-> FALSE,
                   resp |-> Response("allocate", args, 409, "Resource conflict detected",
                                     [conflicts |-> c.conflicts])]
             ELSE IF resource_id \notin DOMAIN resources
             THEN [proceed |-> FALSE,
                   resp |-> Response("allocate", args, 404, "Resource not found", <<>>)]
             ELSE [proceed |-> TRUE, resp |-> NoResponse]

create_allocation_check(event_id, resource_id) ==
    LET args == <<event_id, resource_id>> IN
    IF event_id = None \/ resource_id = None
    THEN [proceed |-> FALSE,
          resp |-> Response("allocate", args, 400, "Missing required fields", <<>>)]
    ELSE IF event_id \notin DOMAIN events
    THEN [proceed |-> FALSE,
          resp |-> Response("allocate", args, 404, "Event not found", <<>>)]
    ELSE IF resource_id \notin DOMAIN resources
    THEN [proceed |-> FALSE,
          resp |-> Response("allocate", args, 404, "Resource not found", <<>>)]
    ELSE IF RowsFor(allocations, event_id, resource_id) # {}
    THEN [proceed |-> FALSE,
          resp |-> Response("allocate", args, 409,
                            "This resource is already allocated to this event", <<>>)]
    ELSE LET c == check_resource_conflict(resource_id, events[event_id].start_time,
                                          events[event_id].end_time, None)
         IN  IF ~c.is_available
             THEN [proceed |-> FALSE,
                   resp |-> Response("allocate", args, 409, "Resource conflict detected",
                                     [conflicts |-> c.conflicts])]
             ELSE [proceed |-> TRUE, resp |-> NoResponse]

(* add and commit, and the rollback of the except clause *)
create_allocation_commit(allocs, event_id, resource_id) ==
    LET args == <<event_id, resource_id>> IN
    IF UniqueViolation(allocs, event_id, resource_id)
    THEN [allocations |-> allocs,
          resp |-> Response("allocate", args, 500, "IntegrityError", <<>>)]
    ELSE LET new_allocation == NewAllocation(allocs, event_id, resource_id)
         IN  [allocations |-> allocs \cup {new_allocation},
              resp |-> Response("allocate", args, 201, "",
                                [allocation |-> new_allocation])]

create_allocation(event_id, resource_id) ==
    LET c == create_allocation_check(event_id, resource_id)
        m == create_allocation_commit(allocations, event_id, resource_id)
    IN  /\ IF ~c.proceed
           THEN /\ resp' = c.resp
                /\ UNCHANGED allocations
           ELSE /\ \A a \in m.allocations : a.allocation_id <= MaxAllocId
                /\ resp' = m.resp
                /\ allocations' = m.allocations
        /\ UNCHANGED <<events, resources, pc, req, res>>

-----------------------------------------------------------------------------
(* routes/allocations.py: create_batch_allocations *)

(* The resources of the request that are not available *)
ConflictsFoundFirstOnly(resource_ids, conflict_results) ==
    [r \in {x \in {resource_ids[1]} : ~conflict_results[x].is_available} |->
        conflict_results[r].conflicts]

ConflictsFound(resource_ids, conflict_results) ==
    [r \in {x \in DOMAIN conflict_results : ~conflict_results[x].is_available} |->
        conflict_results[r].conflicts]

create_batch_allocations_check(event_id, resource_ids) ==
    LET args == <<event_id, resource_ids>> IN
    IF event_id = None \/ resource_ids = <<>>
    THEN [proceed |-> FALSE,
          resp |-> Response("allocateBatch", args, 400, "Missing required fields", <<>>)]
    ELSE IF event_id \notin DOMAIN events
    THEN [proceed |-> FALSE,
          resp |-> Response("allocateBatch", args, 404, "Event not found", <<>>)]
    ELSE LET conflict_results ==
                 check_multiple_resources_conflict(resource_ids,
                     events[event_id].start_time, events[event_id].end_time, None)
             conflicts_found == ConflictsFound(resource_ids, conflict_results)
         IN  IF DOMAIN conflicts_found # {}
             THEN [proceed |-> FALSE,
                   resp |-> Response("allocateBatch", args, 409,
                                     "One or more resources have conflicts",
                                     [conflicts |-> conflicts_found])]
             ELSE [proceed |-> TRUE, resp |-> NoResponse]

(* The loop over resource_ids.  Each filter_by query flushes the rows added *)
(* so far (session autoflush) and so sees them; an INSERT that              *)
(* unique_event_resource rejects raises and ends the loop.                  *)
RECURSIVE AllocateAllReportsSkipped(_, _, _, _)
AllocateAllReportsSkipped(resource_ids, event_id, allocs, allocated) ==
    IF resource_ids = <<>>
    THEN [failed |-> FALSE, allocations |-> allocs, allocated |-> allocated]
    ELSE LET resource_id == Head(resource_ids) IN
         IF RowsFor(allocs, event_id, resource_id) # {}
         THEN AllocateAllReportsSkipped(Tail(resource_ids), event_id, allocs,
                                        Append(allocated, resource_id))
         ELSE IF UniqueViolation(allocs, event_id, resource_id)
         THEN [failed |-> TRUE, allocations |-> allocs, allocated |-> allocated]
         ELSE AllocateAllReportsSkipped(Tail(resource_ids), event_id,
                          allocs \cup {NewAllocation(allocs, event_id, resource_id)},
                          Append(allocated, resource_id))

RECURSIVE AllocateAll(_, _, _, _)
AllocateAll(resource_ids, event_id, allocs, allocated) ==
    IF resource_ids = <<>>
    THEN [failed |-> FALSE, allocations |-> allocs, allocated |-> allocated]
    ELSE LET resource_id == Head(resource_ids) IN
         IF RowsFor(allocs, event_id, resource_id) # {}
         THEN AllocateAll(Tail(resource_ids), event_id, allocs, allocated)
         ELSE IF UniqueViolation(allocs, event_id, resource_id)
         THEN [failed |-> TRUE, allocations |-> allocs, allocated |-> allocated]
         ELSE AllocateAll(Tail(resource_ids), event_id,
                          allocs \cup {NewAllocation(allocs, event_id, resource_id)},
                          Append(allocated, resource_id))

(* The loop, the commit, and the rollback of the except clause *)
create_batch_allocations_commit(allocs, event_id, resource_ids) ==
    LET args == <<event_id, resource_ids>>
        m == AllocateAll(resource_ids, event_id, allocs, <<>>)
    IN  IF m.failed
        THEN [allocations |-> allocs,
              resp |-> Response("allocateBatch", args, 500, "IntegrityError", <<>>)]
        ELSE [allocations |-> m.allocations,
              resp |-> Response("allocateBatch", args, 201, "",
                                [allocated_resource_ids |-> m.allocated])]

create_batch_allocations(event_id, resource_ids) ==
    LET c == create_batch_allocations_check(event_id, resource_ids)
        m == create_batch_allocations_commit(allocations, event_id, resource_ids)
    IN  /\ IF ~c.proceed
           THEN /\ resp' = c.resp
                /\ UNCHANGED allocations
           ELSE /\ \A a \in m.allocations : a.allocation_id <= MaxAllocId
                /\ resp' = m.resp
                /\ allocations' = m.allocations
        /\ UNCHANGED <<events, resources, pc, req, res>>

-----------------------------------------------------------------------------
(* routes/allocations.py: delete_allocation, check_conflicts *)

delete_allocation_of_event(allocation_id) ==
    /\ IF \A a \in allocations : a.allocation_id # allocation_id
       THEN /\ resp' = Response("deallocate", <<allocation_id>>, 404,
                                "Allocation not found", <<>>)
            /\ UNCHANGED allocations
       ELSE /\ allocations' =
                   {a \in allocations :
                       \A b \in allocations :
                           b.allocation_id = allocation_id => a.event_id # b.event_id}
            /\ resp' = Response("deallocate", <<allocation_id>>, 200, "", <<>>)
    /\ UNCHANGED <<events, resources, pc, req, res>>

delete_allocation(allocation_id) ==
    /\ IF \A a \in allocations : a.allocation_id # allocation_id
       THEN /\ resp' = Response("deallocate", <<allocation_id>>, 404,
                                "Allocation not found", <<>>)
            /\ UNCHANGED allocations
       ELSE /\ allocations' = {a \in allocations : a.allocation_id # allocation_id}
            /\ resp' = Response("deallocate", <<allocation_id>>, 200, "", <<>>)
    /\ UNCHANGED <<events, resources, pc, req, res>>

(* The preview endpoint: check_resource_conflict on the request's values *)
check_conflicts_releasing(resource_id, start_time, end_time, exclude_event_id) ==
    /\ resp' = Response("check_conflicts",
                        <<resource_id, start_time, end_time, exclude_event_id>>,
                        200, "",
                        check_resource_conflict(resource_id, start_time, end_time,
                                                exclude_event_id))
    /\ allocations' = allocations \
                          ConflictQuery(resource_id, start_time, end_time,
                                        exclude_event_id)
    /\ UNCHANGED <<events, resources, pc, req, res>>

check_conflicts(resource_id, start_time, end_time, exclude_event_id) ==
    /\ resp' = Response("check_conflicts",
                        <<resource_id, start_time, end_time, exclude_event_id>>,
                        200, "",
                        check_resource_conflict(resource_id, start_time, end_time,
                                                exclude_event_id))
    /\ UNCHANGED <<events, resources, allocations, pc, req, res>>

-----------------------------------------------------------------------------
(* routes/reports.py: conflicts_report *)

(* One entry of the report: the allocation's event and resource with the *)
(* events that conflict with it                                          *)
ReportEntry(a, conflict_list) ==
    [event_id           |-> a.event_id,
     event_title        |-> events[a.event_id].title,
     resource_id        |-> a.resource_id,
     resource_name      |-> resources[a.resource_id].resource_name,
     start_time         |-> events[a.event_id].start_time,
     end_time           |-> events[a.event_id].end_time,
     conflicting_events |-> conflict_list]

(* The loop over all allocations.  allocation.event and allocation.resource *)
(* are None when the row they name is missing, and reading an attribute of  *)
(* None raises, which ends the loop.                                        *)
RECURSIVE ReportLoop(_, _, _)
ReportLoop(all_allocations, checked_pairs, conflicts) ==
    IF all_allocations = <<>>
    THEN [failed |-> FALSE, conflicts |-> conflicts]
    ELSE LET allocation == Head(all_allocations)
             pair_key == <<allocation.event_id, allocation.resource_id>>
         IN  IF allocation.event_id \notin DOMAIN events
             THEN [failed |-> TRUE, conflicts |-> conflicts]
             ELSE IF pair_key \in checked_pairs
             THEN ReportLoop(Tail(all_allocations), checked_pairs, conflicts)
             ELSE LET c == check_resource_conflict(allocation.resource_id,
                               events[allocation.event_id].start_time,
                               events[allocation.event_id].end_time,
                               allocation.event_id)
                  IN  IF c.is_available
                      THEN ReportLoop(Tail(all_allocations),
                                      checked_pairs \cup {pair_key}, conflicts)
                      ELSE IF allocation.resource_id \notin DOMAIN resources
                      THEN [failed |-> TRUE, conflicts |-> conflicts]
                      ELSE ReportLoop(Tail(all_allocations),
                                      checked_pairs \cup {pair_key},
                                      Append(conflicts,
                                             ReportEntry(allocation, c.conflicts)))

conflicts_report ==
    LET m == ReportLoop(InKeyOrder(allocations), {}, <<>>) IN
    /\ IF m.failed
       THEN resp' = Response("conflicts_report", <<>>, 500, "AttributeError", <<>>)
       ELSE resp' = Response("conflicts_report", <<>>, 200, "",
                             [conflicts_found |-> Len(m.conflicts),
                              conflicts       |-> m.conflicts])
    /\ UNCHANGED <<events, resources, allocations, pc, req, res>>

-----------------------------------------------------------------------------
(* The server under serial requests: one request is served at a time, and *)
(* its response is sent before the next request is taken.                 *)

Ready == resp = NoResponse

CreateEvent ==
    /\ Ready
    /\ \E t \in Titles, d \in Descriptions, s \in Times, e \in Times :
           create_event(t, d, s, e)

UpdateEvent ==
    /\ Ready
    /\ \E id \in EventIds, t \in Titles \cup {NoTitle},
          s \in Times \cup {NoTime}, e \in Times \cup {NoTime} :
           update_event(id, t, NoDescription, s, e)

DeleteEvent ==
    /\ Ready
    /\ \E id \in EventIds : delete_event(id)

CreateResource ==
    /\ Ready
    /\ \E n \in Names : create_resource(n, "room")

DeleteResource ==
    /\ Ready
    /\ \E id \in ResourceIds : delete_resource(id)

Allocate ==
    /\ Ready
    /\ \E e \in EventIds \cup {None}, r \in ResourceIds \cup {None} :
           create_allocation(e, r)

AllocateBatch ==
    /\ Ready
    /\ \E e \in EventIds \cup {None}, ids \in BatchLists \cup {<<>>} :
           create_batch_allocations(e, ids)

Deallocate ==
    /\ Ready
    /\ \E id \in 1..MaxAllocId : delete_allocation(id)

ConflictsReport ==
    /\ Ready
    /\ conflicts_report

CheckConflicts ==
    /\ Ready
    /\ \E r \in ResourceIds, s \in Times, e \in Times, x \in EventIds \cup {None} :
           check_conflicts(r, s, e, x)

Next ==
    \/ CreateEvent
    \/ UpdateEvent
    \/ DeleteEvent
    \/ CreateResource
    \/ DeleteResource
    \/ Allocate
    \/ AllocateBatch
    \/ Deallocate
    \/ CheckConflicts
    \/ ConflictsReport
    \/ send_response

Spec == Init /\ [][Next]_vars

-----------------------------------------------------------------------------
(* The event handlers alone, with update requests that carry a new title *)
(* and a new description                                                 *)

EditEvent ==
    /\ Ready
    /\ \E id \in EventIds, t \in {"B", NoTitle}, d \in {"x", NoDescription},
          s \in Times \cup {NoTime}, e \in Times \cup {NoTime} :
           update_event(id, t, d, s, e)

NextEvents ==
    \/ CreateEvent
    \/ EditEvent
    \/ DeleteEvent
    \/ send_response

SpecEvents == Init /\ [][NextEvents]_vars

-----------------------------------------------------------------------------
(* The resource handlers that write a resource_name, with requests that *)
(* carry every kind of name and type                                    *)

RequestNames == Names \cup {"gym", ""}

RequestTypes == {"room", "Room", "desk", ""}

RegisterResource ==
    /\ Ready
    /\ \E n \in RequestNames, t \in RequestTypes : create_resource(n, t)

UpdateResource ==
    /\ Ready
    /\ \E id \in ResourceIds, n \in RequestNames \cup {NoName},
          t \in RequestTypes \cup {NoType} :
           update_resource(id, n, t)

NextResources ==
    \/ RegisterResource
    \/ UpdateResource
    \/ send_response

SpecResources == Init /\ [][NextResources]_vars

-----------------------------------------------------------------------------
(* The functions of utils/conflict.py that read no table, called on their *)
(* own: resp records the call and the value it returns.                   *)

Ranges == [start_time : Times, end_time : Times]

validate_time(start_time, end_time) ==
    /\ resp' = Response("validate_event_time", <<start_time, end_time>>, 200, "",
                        validate_event_time(start_time, end_time))
    /\ UNCHANGED <<events, resources, allocations, pc, req, res>>

(* The time filter of the conflict query on an event with range A and a *)
(* requested range B, and on an event with range B and a requested A   *)
overlap_filter(A, B) ==
    /\ resp' = Response("overlap_filter", <<A, B>>, 200, "",
                        [ab |-> OverlapFilter(A, B.start_time, B.end_time),
                         ba |-> OverlapFilter(B, A.start_time, A.end_time)])
    /\ UNCHANGED <<events, resources, allocations, pc, req, res>>

ValidateTime ==
    /\ Ready
    /\ \E s \in Times, e \in Times : validate_time(s, e)

OverlapTest ==
    /\ Ready
    /\ \E A \in Ranges, B \in Ranges : overlap_filter(A, B)

NextPure ==
    \/ ValidateTime
    \/ OverlapTest
    \/ send_response

SpecPure == Init /\ [][NextPure]_vars

-----------------------------------------------------------------------------
(* A populated database without allocations, as create_event and            *)
(* create_resource leave it: every event passed validate_event_time and the *)
(* resource names are distinct.                                             *)

ValidEvents ==
    {ev \in [title : Titles, description : Descriptions,
             start_time : Times, end_time : Times] :
        validate_event_time(ev.start_time, ev.end_time).is_valid}

ResourceTables ==
    UNION {{t \in [1..k -> [resource_name : Names]] :
               \A i, j \in 1..k : t[i] = t[j] => i = j} : k \in 0..MaxResources}

InitPopulated ==
    /\ events \in [EventIds -> ValidEvents]
    /\ resources \in ResourceTables
    /\ allocations = {}
    /\ resp = NoResponse
    /\ pc = [w \in Workers |-> "idle"]
    /\ req = [w \in Workers |-> NoRequest]
    /\ res = [w \in Workers |-> NoResponse]

(* Serial allocate and allocateBatch requests on a fixed set of events *)
NextAlloc ==
    \/ Allocate
    \/ AllocateBatch
    \/ send_response

SpecAlloc == InitPopulated /\ [][NextAlloc]_vars

-----------------------------------------------------------------------------
(* The conflict checks on a database that allocate and allocateBatch fill. *)
(* check_multiple_resources_conflict has no endpoint of its own: resp      *)
(* records a call of it and the value it returns.                          *)

check_multiple(resource_ids, start_time, end_time, exclude_event_id) ==
    /\ resp' = Response("check_multiple",
                        <<resource_ids, start_time, end_time, exclude_event_id>>,
                        200, "",
                        check_multiple_resources_conflict(resource_ids, start_time,
                                                          end_time, exclude_event_id))
    /\ UNCHANGED <<events, resources, allocations, pc, req, res>>

CheckMultiple ==
    /\ Ready
    /\ \E ids \in BatchLists, s \in Times, e \in Times, x \in EventIds \cup {None} :
           check_multiple(ids, s, e, x)

NextQuery ==
    \/ Allocate
    \/ AllocateBatch
    \/ CheckConflicts
    \/ CheckMultiple
    \/ send_response

SpecQuery == InitPopulated /\ [][NextQuery]_vars

-----------------------------------------------------------------------------
(* The requests that create and remove allocations, and those that delete *)
(* events and resources, on a populated database                          *)

NextLifecycle ==
    \/ Allocate
    \/ AllocateBatch
    \/ Deallocate
    \/ DeleteEvent
    \/ DeleteResource
    \/ send_response

SpecLifecycle == InitPopulated /\ [][NextLifecycle]_vars

-----------------------------------------------------------------------------
(* Two request threads, one request each.  A thread runs the handler up to *)
(* the point where it adds rows (begin), and adds and commits them in a    *)
(* later step (commit); a batch runs its loop in a step of its own between *)
(* the two.  The steps of the two threads interleave freely.               *)

begin_allocation(w, event_id, resource_id) ==
    LET c == create_allocation_check(event_id, resource_id) IN
    /\ pc[w] = "idle"
    /\ IF c.proceed
       THEN /\ pc' = [pc EXCEPT ![w] = "commit"]
            /\ req' = [req EXCEPT ![w] = [op |-> "allocate", event_id |-> event_id,
                                          resource_ids |-> <<resource_id>>,
                                          allocated |-> <<>>]]
            /\ UNCHANGED res
       ELSE /\ pc' = [pc EXCEPT ![w] = "done"]
            /\ res' = [res EXCEPT ![w] = c.resp]
            /\ UNCHANGED req
    /\ UNCHANGED <<events, resources, allocations, resp>>

commit_allocation(w) ==
    LET m == create_allocation_commit(allocations, req[w].event_id,
                                      req[w].resource_ids[1]) IN
    /\ pc[w] = "commit"
    /\ req[w].op = "allocate"
    /\ allocations' = m.allocations
    /\ res' = [res EXCEPT ![w] = m.resp]
    /\ pc' = [pc EXCEPT ![w] = "done"]
    /\ UNCHANGED <<events, resources, resp, req>>

begin_batch(w, event_id, resource_ids) ==
    LET c == create_batch_allocations_check(event_id, resource_ids) IN
    /\ pc[w] = "idle"
    /\ IF c.proceed
       THEN /\ pc' = [pc EXCEPT ![w] = "loop"]
            /\ req' = [req EXCEPT ![w] = [op |-> "allocateBatch", event_id |-> event_id,
                                          resource_ids |-> resource_ids,
                                          allocated |-> <<>>]]
            /\ UNCHANGED res
       ELSE /\ pc' = [pc EXCEPT ![w] = "done"]
            /\ res' = [res EXCEPT ![w] = c.resp]
            /\ UNCHANGED req
    /\ UNCHANGED <<events, resources, allocations, resp>>

(* The loop over resource_ids: the rows it adds stay in the thread's own *)
(* transaction, out of the other thread's sight, until the commit        *)
add_batch(w) ==
    LET m == AllocateAll(req[w].resource_ids, req[w].event_id, allocations, <<>>) IN
    /\ pc[w] = "loop"
    /\ req[w].op = "allocateBatch"
    /\ req' = [req EXCEPT ![w].allocated = m.allocated]
    /\ pc' = [pc EXCEPT ![w] = "commit"]
    /\ UNCHANGED <<events, resources, allocations, resp, res>>

(* The INSERTs of the added rows against the table as it is at the commit *)
RECURSIVE FlushAll(_, _, _)
FlushAll(allocated, event_id, allocs) ==
    IF allocated = <<>>
    THEN [failed |-> FALSE, allocations |-> allocs]
    ELSE IF UniqueViolation(allocs, event_id, Head(allocated))
    THEN [failed |-> TRUE, allocations |-> allocs]
    ELSE FlushAll(Tail(allocated), event_id,
                  allocs \cup {NewAllocation(allocs, event_id, Head(allocated))})

(* db.session.commit() of the batch, and the rollback of the except clause *)
flush_batch_no_rollback(allocs, event_id, resource_ids, allocated) ==
    LET args == <<event_id, resource_ids>>
        m == FlushAll(allocated, event_id, allocs)
    IN  IF m.failed
        THEN [allocations |-> m.allocations,
              resp |-> Response("allocateBatch", args, 500, "IntegrityError", <<>>)]
        ELSE [allocations |-> m.allocations,
              resp |-> Response("allocateBatch", args, 201, "",
                                [allocated_resource_ids |-> allocated])]

flush_batch(allocs, event_id, resource_ids, allocated) ==
    LET args == <<event_id, resource_ids>>
        m == FlushAll(allocated, event_id, allocs)
    IN  IF m.failed
        THEN [allocations |-> allocs,
              resp |-> Response("allocateBatch", args, 500, "IntegrityError", <<>>)]
        ELSE [allocations |-> m.allocations,
              resp |-> Response("allocateBatch", args, 201, "",
                                [allocated_resource_ids |-> allocated])]

commit_batch(w) ==
    LET m == flush_batch(allocations, req[w].event_id, req[w].resource_ids,
                         req[w].allocated) IN
    /\ pc[w] = "commit"
    /\ req[w].op = "allocateBatch"
    /\ allocations' = m.allocations
    /\ res' = [res EXCEPT ![w] = m.resp]
    /\ pc' = [pc EXCEPT ![w] = "done"]
    /\ UNCHANGED <<events, resources, resp, req>>

BeginAllocation ==
    \E w \in Workers, e \in EventIds, r \in ResourceIds : begin_allocation(w, e, r)

CommitAllocation == \E w \in Workers : commit_allocation(w)

BeginBatch ==
    \E w \in Workers, e \in EventIds, ids \in BatchLists : begin_batch(w, e, ids)

AddBatch == \E w \in Workers : add_batch(w)

CommitBatch == \E w \in Workers : commit_batch(w)

NextConc ==
    \/ BeginAllocation
    \/ CommitAllocation
    \/ BeginBatch
    \/ AddBatch
    \/ CommitBatch

SpecConc == InitPopulated /\ [][NextConc]_vars

-----------------------------------------------------------------------------
(* Properties *)

(* Overlap of two time ranges: A.start < B.end and A.end > B.start *)
Overlaps(A, B) == A.start_time < B.end_time /\ A.end_time > B.start_time

(* The events that hold an allocation to a resource *)
Holders(resource_id) ==
    {a.event_id : a \in {x \in allocations : x.resource_id = resource_id}}
        \cap DOMAIN events

(* C1: starting without allocations on a fixed set of valid events, after   *)
(* any serial sequence of allocate and allocateBatch calls no two distinct  *)
(* events holding an allocation to the same resource overlap in time.       *)
C1_NoDoubleBooking ==
    \A a, b \in allocations :
        (a.resource_id = b.resource_id /\ a.event_id # b.event_id)
            => ~Overlaps(events[a.event_id], events[b.event_id])

(* Two events share a resource and a conflicting request has been refused *)
C1_Witness ==
    /\ \E a, b \in allocations :
           a.resource_id = b.resource_id /\ a.event_id # b.event_id
    /\ resp.op \in {"allocate", "allocateBatch"}
    /\ resp.status = 409
    /\ resp.error # "This resource is already allocated to this event"

(* C2: in every state reachable by any serial sequence of the operations,  *)
(* for every resource the events holding an allocation to it are pairwise  *)
(* non-overlapping in time.                                                *)
C2_HoldersNeverOverlap ==
    \A r \in DOMAIN resources :
        \A e1, e2 \in Holders(r) : e1 # e2 => ~Overlaps(events[e1], events[e2])

(* C3: of two concurrent allocation requests for two different overlapping *)
(* events and the same resource, at most one succeeds in allocating it.    *)
Allocated(w) ==
    IF res[w].status # 201 THEN {}
    ELSE IF res[w].op = "allocate" THEN {res[w].body.allocation.resource_id}
    ELSE Range(res[w].body.allocated_resource_ids)

C3_AtMostOneSucceeds ==
    \A w1, w2 \in Workers :
        (/\ w1 # w2
         /\ res[w1].status = 201
         /\ res[w2].status = 201
         /\ res[w1].args[1] # res[w2].args[1]
         /\ Overlaps(events[res[w1].args[1]], events[res[w2].args[1]]))
            => Allocated(w1) \cap Allocated(w2) = {}

-----------------------------------------------------------------------------
(* Properties of single requests.  In a step that serves a request, resp is *)
(* NoResponse before the step and the request's response after it; the      *)
(* unprimed variables are the state the request found.                      *)

Serves(op) == resp = NoResponse /\ resp'.op = op

(* Some event other than event_id holds resource_id and overlaps event_id *)
ConflictsWithOther(event_id, resource_id) ==
    \E other \in Holders(resource_id) \ {event_id} :
        Overlaps(events[other], events[event_id])

HasAllocation(event_id, resource_id) ==
    \E a \in allocations : a.event_id = event_id /\ a.resource_id = resource_id

IsConflictDetected(r) == r.status = 409 /\ "conflicts" \in DOMAIN r.body

IsAlreadyAllocated(r) ==
    r.status = 409 /\ r.error = "This resource is already allocated to this event"

(* C4: when allocateBatch(E, ids) meets a conflict on some resource of ids *)
(* it fails, and a failed allocateBatch creates no allocation at all: the  *)
(* allocations after the call are those before it.                         *)
C4_FailedBatchChangesNothing ==
    [][Serves("allocateBatch") =>
          LET event_id == resp'.args[1]
              resource_ids == resp'.args[2]
          IN  /\ (/\ event_id \in DOMAIN events
                  /\ \E r \in Range(resource_ids) : ConflictsWithOther(event_id, r))
                     => IsConflictDetected(resp')
              /\ resp'.status # 201 => allocations' = allocations]_vars

(* A batch was refused for conflicts with another event although one of *)
(* its resources was free                                               *)
C4_Witness ==
    /\ resp.op = "allocateBatch"
    /\ IsConflictDetected(resp)
    /\ \A r \in DOMAIN resp.body.conflicts :
           \A i \in DOMAIN resp.body.conflicts[r] :
               resp.body.conflicts[r][i].event_id # resp.args[1]
    /\ \E r \in Range(resp.args[2]) :
           /\ r \notin DOMAIN resp.body.conflicts
           /\ Holders(r) = {}

(* C5: allocateBatch(E, ids) on existing resources, with some id already   *)
(* allocated to E and no id held by another event that overlaps E,         *)
(* succeeds, skips the ids already allocated, allocates the others and     *)
(* returns only those.                                                     *)
C5_BatchSkipsAlreadyAllocated ==
    [][Serves("allocateBatch") =>
          LET event_id == resp'.args[1]
              resource_ids == resp'.args[2]
          IN  (/\ event_id \in DOMAIN events
               /\ Range(resource_ids) \subseteq DOMAIN resources
               /\ \E r \in Range(resource_ids) : HasAllocation(event_id, r)
               /\ \A r \in Range(resource_ids) : ~ConflictsWithOther(event_id, r))
                  => /\ resp'.status = 201
                     /\ Range(resp'.body.allocated_resource_ids) =
                            {r \in Range(resource_ids) : ~HasAllocation(event_id, r)}
                     /\ \A r \in Range(resource_ids) :
                            Cardinality(RowsFor(allocations', event_id, r)) = 1]_vars

(* C6: whenever an allocation for (E, R) exists, allocate(E, R) returns     *)
(* AlreadyAllocated and leaves the allocations unchanged, with exactly one  *)
(* allocation for (E, R).                                                   *)
C6_DuplicateAllocateIsRefused ==
    [][Serves("allocate") =>
          LET event_id == resp'.args[1]
              resource_id == resp'.args[2]
          IN  HasAllocation(event_id, resource_id)
                  => /\ IsAlreadyAllocated(resp')
                     /\ allocations' = allocations
                     /\ Cardinality(RowsFor(allocations', event_id, resource_id)) = 1]_vars

(* C7: there is at most one allocation for each pair (event_id, resource_id) *)
C7_PairIsUnique ==
    \A a, b \in allocations :
        (a.event_id = b.event_id /\ a.resource_id = b.resource_id) => a = b

(* A batch that names the same resource twice has allocated it *)
C7_Witness ==
    /\ resp.op = "allocateBatch"
    /\ resp.status = 201
    /\ Len(resp.args[2]) = 2
    /\ resp.args[2][1] = resp.args[2][2]
    /\ HasAllocation(resp.args[1], resp.args[2][1])

C10_CheckConflictExact ==
    [][Serves("check_conflicts") =>
          LET resource_id == resp'.args[1]
              start == resp'.args[2]
              end == resp'.args[3]
              x == resp'.args[4]
              conflicts == resp'.body.conflicts
              expected == {ev \in Holders(resource_id) :
                              /\ events[ev].start_time < end
                              /\ events[ev].end_time > start
                              /\ (x # None => ev # x)}
          IN  start < end
                  => /\ \A ev \in expected :
                            Cardinality({i \in DOMAIN conflicts :
                                            conflicts[i].event_id = ev}) = 1
                     /\ \A i \in DOMAIN conflicts :
                            /\ conflicts[i].event_id \in expected
                            /\ conflicts[i].resource_id = resource_id
                            /\ conflicts[i].start_time =
                                   events[conflicts[i].event_id].start_time
                            /\ conflicts[i].end_time =
                                   events[conflicts[i].event_id].end_time
                     /\ resp'.body.is_available <=> (conflicts = <<>>)]_vars

(* A check excluded an overlapping holder and still reported another one *)
C10_Witness ==
    /\ resp.op = "check_conflicts"
    /\ resp.args[2] < resp.args[3]
    /\ resp.args[4] \in Holders(resp.args[1])
    /\ Overlaps(events[resp.args[4]],
                [start_time |-> resp.args[2], end_time |-> resp.args[3]])
    /\ Len(resp.body.conflicts) >= 1

-----------------------------------------------------------------------------
(* Properties of the event handlers *)

(* C15: in every state reachable through create_event and update_event,    *)
(* updates that supply only start_time or only end_time included, every    *)
(* stored event has start_time < end_time and lasts at most 24 hours.      *)
C15_StoredEventsAreValid ==
    \A id \in DOMAIN events :
        /\ events[id].start_time < events[id].end_time
        /\ (events[id].end_time - events[id].start_time) * HoursPerTick
               <= MaxDurationHours

(* An update that supplied only start_time stretched an event to the limit *)
C15_Witness ==
    /\ resp.op = "update_event"
    /\ resp.status = 200
    /\ resp.args[4] # NoTime
    /\ resp.args[5] = NoTime
    /\ events[resp.args[1]].start_time = resp.args[4]
    /\ (events[resp.args[1]].end_time - resp.args[4]) * HoursPerTick
           = MaxDurationHours

(* C16: a create_event or update_event request rejected by a validation    *)
(* error changes nothing that is stored: an update_event with a new title  *)
(* or description and an inverted or oversized range leaves the event's    *)
(* title, description, start_time and end_time as they were, and a         *)
(* create_event with an invalid range stores no event.                     *)
C16_RejectedRequestStoresNothing ==
    [][(/\ resp = NoResponse
        /\ resp'.op \in {"create_event", "update_event"}
        /\ resp'.status = 400)
           => /\ events' = events
              /\ resources' = resources
              /\ allocations' = allocations]_vars

(* An update with a new title, a new description and an oversized range *)
(* has been rejected                                                    *)
C16_Witness ==
    /\ resp.op = "update_event"
    /\ resp.status = 400
    /\ resp.error = "Event duration cannot exceed 24 hours"
    /\ resp.args[2] \notin {NoTitle, events[resp.args[1]].title}
    /\ resp.args[3] \notin {NoDescription, events[resp.args[1]].description}

-----------------------------------------------------------------------------
(* Properties of the overlap test and of validate_event_time *)

(* C12: the overlap test is symmetric, overlaps(A, B) = overlaps(B, A) for *)
(* all ranges A and B, and two ranges where one's end equals the other's   *)
(* start never overlap.                                                    *)
C12_OverlapSymmetricAdjacencyFree ==
    resp.op = "overlap_filter" =>
        LET A == resp.args[1]
            B == resp.args[2]
        IN  /\ resp.body.ab = resp.body.ba
            /\ (A.end_time = B.start_time \/ B.end_time = A.start_time)
                   => ~resp.body.ab /\ ~resp.body.ba

(* Two proper ranges, the second starting when the first ends, were tested *)
C12_Witness ==
    /\ resp.op = "overlap_filter"
    /\ resp.args[1].start_time < resp.args[1].end_time
    /\ resp.args[1].end_time = resp.args[2].start_time
    /\ resp.args[2].start_time < resp.args[2].end_time
    /\ ~resp.body.ab

(* The instants of the half-open interval [start_time, end_time) *)
Instants(A) == {t \in Times : A.start_time <= t /\ t < A.end_time}

(* C13: for all ranges A and B with start < end the overlap test holds     *)
(* exactly when [A.start, A.end) and [B.start, B.end) share an instant;    *)
(* containment either way, partial overlap on either side and coincidence  *)
(* are all reported.                                                       *)
C13_OverlapIffSharedInstant ==
    resp.op = "overlap_filter" =>
        LET A == resp.args[1]
            B == resp.args[2]
        IN  (A.start_time < A.end_time /\ B.start_time < B.end_time)
                => /\ resp.body.ab <=> (Instants(A) \cap Instants(B) # {})
                   /\ Instants(A) \subseteq Instants(B) => resp.body.ab
                   /\ Instants(B) \subseteq Instants(A) => resp.body.ab
                   /\ (A.start_time < B.start_time /\ B.start_time < A.end_time)
                          => resp.body.ab
                   /\ (B.start_time < A.start_time /\ A.start_time < B.end_time)
                          => resp.body.ab

(* A range that starts inside another and ends after it was reported *)
C13_Witness ==
    /\ resp.op = "overlap_filter"
    /\ resp.args[1].start_time < resp.args[2].start_time
    /\ resp.args[2].start_time < resp.args[1].end_time
    /\ resp.args[1].end_time < resp.args[2].end_time
    /\ resp.body.ab

(* C14: validate(start, end) fails with InvalidRange iff start >= end;      *)
(* otherwise it fails with DurationExceeded iff end - start is more than    *)
(* 24 hours, a range of exactly 24 hours being valid; otherwise it returns  *)
(* valid with no reason.                                                    *)
C14_ValidateBoundaries ==
    resp.op = "validate_event_time" =>
        LET start == resp.args[1]
            end == resp.args[2]
            hours == (end - start) * HoursPerTick
        IN  /\ (~resp.body.is_valid
                 /\ resp.body.error = "Start time must be before end time")
                    <=> start >= end
            /\ (~resp.body.is_valid
                 /\ resp.body.error = "Event duration cannot exceed 24 hours")
                    <=> (start < end /\ hours > MaxDurationHours)
            /\ (resp.body.is_valid /\ resp.body.error = "None")
                    <=> (start < end /\ hours <= MaxDurationHours)
            /\ (start < end /\ hours = MaxDurationHours) => resp.body.is_valid

(* A range of exactly 24 hours was validated *)
C14_Witness ==
    /\ resp.op = "validate_event_time"
    /\ (resp.args[2] - resp.args[1]) * HoursPerTick = MaxDurationHours
    /\ resp.body.is_valid

-----------------------------------------------------------------------------
(* Properties of the conflict answers.  A request answered with 409 or by *)
(* a check has changed nothing, so the tables in the state that holds its *)
(* response are the tables the request found.                             *)

Listed(conflicts, event_id) ==
    \E i \in DOMAIN conflicts : conflicts[i].event_id = event_id

(* C11: a ConflictDetected answer of allocate lists every event allocated  *)
(* to the resource that overlaps the requested event; that of              *)
(* allocateBatch has an entry, with its full list, for every resource of   *)
(* the request that has a conflict and no entry for a resource that is     *)
(* free.                                                                   *)
C11_ConflictErrorsCarryEverything ==
    /\ (resp.op = "allocate" /\ IsConflictDetected(resp))
           => \A other \in Holders(resp.args[2]) :
                  Overlaps(events[other], events[resp.args[1]])
                      => Listed(resp.body.conflicts, other)
    /\ (/\ resp.op = "allocateBatch"
        /\ IsConflictDetected(resp)
        /\ Range(resp.args[2]) \subseteq DOMAIN resources)
           => \A r \in Range(resp.args[2]) :
                  IF ConflictsWithOther(resp.args[1], r)
                  THEN /\ r \in DOMAIN resp.body.conflicts
                       /\ \A other \in Holders(r) \ {resp.args[1]} :
                              Overlaps(events[other], events[resp.args[1]])
                                  => Listed(resp.body.conflicts[r], other)
                  ELSE r \notin DOMAIN resp.body.conflicts

(* C17: checkConflict called with start >= end returns available = false *)
(* and exactly one diagnostic record, not a list of conflicting events,   *)
(* whatever allocations the resource has.                                 *)
C17_ImproperRangeGetsDiagnostic ==
    (resp.op = "check_conflicts" /\ resp.args[2] >= resp.args[3])
        => /\ ~resp.body.is_available
           /\ Len(resp.body.conflicts) = 1
           /\ DOMAIN resp.body.conflicts[1] = {"error"}

(* An empty range inside the range of an event that holds the resource *)
(* was checked                                                         *)
C17_Witness ==
    /\ resp.op = "check_conflicts"
    /\ resp.args[2] = resp.args[3]
    /\ \E ev \in Holders(resp.args[1]) :
           /\ events[ev].start_time < resp.args[2]
           /\ resp.args[2] < events[ev].end_time
    /\ Len(resp.body.conflicts) = 1

(* C18: checkMultiple(ids, start, end, x) has an entry for exactly the      *)
(* distinct ids of ids, evaluated without stopping at the first conflict,   *)
(* and the verdict of each id is the result of checkConflict(id, start,     *)
(* end, x) on the same state, however often the id occurs in ids.           *)
C18_CheckMultipleIsCheckConflictPerId ==
    resp.op = "check_multiple" =>
        /\ DOMAIN resp.body = Range(resp.args[1])
        /\ \A r \in Range(resp.args[1]) :
               resp.body[r] = check_resource_conflict(r, resp.args[2], resp.args[3],
                                                      resp.args[4])

(* Two resources were checked and the second has its entry although the *)
(* first has a conflict                                                  *)
C18_Witness ==
    /\ resp.op = "check_multiple"
    /\ Len(resp.args[1]) = 2
    /\ resp.args[1][1] # resp.args[1][2]
    /\ resp.args[2] < resp.args[3]
    /\ ~resp.body[resp.args[1][1]].is_available
    /\ resp.body[resp.args[1][2]].is_available

(* C19: checkConflict and checkMultiple, the preview endpoint included, *)
(* are read-only: the stored events, resources and allocations after    *)
(* the call are those before it.                                        *)
C19_ChecksAreReadOnly ==
    [][(Serves("check_conflicts") \/ Serves("check_multiple"))
           => /\ events' = events
              /\ resources' = resources
              /\ allocations' = allocations]_vars

(* A check has reported a conflict and the allocation it reports is stored *)
C19_Witness ==
    /\ resp.op = "check_conflicts"
    /\ resp.args[2] < resp.args[3]
    /\ ~resp.body.is_available
    /\ \A i \in DOMAIN resp.body.conflicts :
           HasAllocation(resp.body.conflicts[i].event_id, resp.args[1])

(* C20: deallocate(allocationId) removes exactly the allocation with that *)
(* id and leaves every other allocation, event and resource unchanged;    *)
(* when no allocation has that id it returns NotFound and the stored      *)
(* state is unchanged.                                                    *)
C20_DeallocateFrame ==
    [][Serves("deallocate") =>
          LET target == {a \in allocations : a.allocation_id = resp'.args[1]}
          IN  /\ events' = events
              /\ resources' = resources
              /\ IF target = {}
                 THEN /\ resp'.status = 404
                      /\ allocations' = allocations
                 ELSE /\ resp'.status = 200
                      /\ Cardinality(target) = 1
                      /\ allocations' = allocations \ target]_vars

(* An allocation was removed and two others, of one event, are left *)
C20_Witness ==
    /\ resp.op = "deallocate"
    /\ resp.status = 200
    /\ \E a, b \in allocations : a # b /\ a.event_id = b.event_id

-----------------------------------------------------------------------------
(* Properties of the requests that create and remove rows *)

IsNotFound(r, what) == r.status = 404 /\ r.error = what

(* C21: allocate fails with NotFound(event) when the event id does not     *)
(* resolve and with NotFound(resource) when the event resolves and the     *)
(* resource id does not; allocateBatch fails with NotFound(event) when the *)
(* event id does not resolve.  The failure comes before any conflict check *)
(* and no allocation is created.                                           *)
C21_NotFoundComesFirst ==
    [][/\ Serves("allocate") =>
              LET event_id == resp'.args[1]
                  resource_id == resp'.args[2]
              IN  (event_id # None /\ resource_id # None)
                      => /\ event_id \notin DOMAIN events
                                => /\ IsNotFound(resp', "Event not found")
                                   /\ allocations' = allocations
                         /\ (/\ event_id \in DOMAIN events
                             /\ resource_id \notin DOMAIN resources)
                                => /\ IsNotFound(resp', "Resource not found")
                                   /\ allocations' = allocations
       /\ Serves("allocateBatch") =>
              LET event_id == resp'.args[1]
                  resource_ids == resp'.args[2]
              IN  (/\ event_id # None
                   /\ resource_ids # <<>>
                   /\ event_id \notin DOMAIN events)
                      => /\ IsNotFound(resp', "Event not found")
                         /\ allocations' = allocations]_vars

(* allocate was refused for a resource that does not exist although an *)
(* overlapping event holds an allocation to that resource id           *)
C21_Witness ==
    /\ resp.op = "allocate"
    /\ IsNotFound(resp, "Resource not found")
    /\ ConflictsWithOther(resp.args[1], resp.args[2])

(* The resources allocated to an event in a set of allocation rows *)
ResourcesOf(allocs, event_id) ==
    {a.resource_id : a \in {x \in allocs : x.event_id = event_id}}

(* C22: when allocateBatch(E, ids) succeeds, the returned list holds       *)
(* exactly the resource ids for which the call created an allocation, each *)
(* at most once even when ids repeats an id; the resources allocated to E  *)
(* afterwards are those before the call and those of ids; allocations of   *)
(* other events are unchanged.                                             *)
C22_BatchReturnsWhatItCreated ==
    [][(Serves("allocateBatch") /\ resp'.status = 201) =>
          LET event_id == resp'.args[1]
              resource_ids == resp'.args[2]
              returned == resp'.body.allocated_resource_ids
              created == allocations' \ allocations
          IN  /\ allocations \subseteq allocations'
              /\ \A a \in created : a.event_id = event_id
              /\ {a.resource_id : a \in created} = Range(returned)
              /\ Cardinality(created) = Len(returned)
              /\ \A i, j \in DOMAIN returned : returned[i] = returned[j] => i = j
              /\ ResourcesOf(allocations', event_id) =
                     ResourcesOf(allocations, event_id) \cup Range(resource_ids)]_vars

(* A batch that names one resource twice succeeded next to the allocations *)
(* of another event and returned the resource once                         *)
C22_Witness ==
    /\ resp.op = "allocateBatch"
    /\ resp.status = 201
    /\ Len(resp.args[2]) = 2
    /\ resp.args[2][1] = resp.args[2][2]
    /\ Len(resp.body.allocated_resource_ids) = 1
    /\ \E a \in allocations : a.event_id # resp.args[1]

(* C23: deleting an event removes every allocation that references the *)
(* event and no other allocation; after delete_event(E) no allocation   *)
(* with event_id = E exists.                                            *)
C23_DeleteEventCascades ==
    [][(Serves("delete_event") /\ resp'.status = 200) =>
          LET event_id == resp'.args[1]
          IN  /\ event_id \notin DOMAIN events'
              /\ allocations' = {a \in allocations : a.event_id # event_id}
              /\ \A a \in allocations' : a.event_id # event_id
              /\ \A e \in DOMAIN events \ {event_id} :
                     e \in DOMAIN events' /\ events'[e] = events[e]
              /\ resources' = resources]_vars

(* An event was deleted; an allocation of another event is left and the *)
(* allocation made before it is gone                                    *)
C23_Witness ==
    /\ resp.op = "delete_event"
    /\ resp.status = 200
    /\ \E a \in allocations :
           /\ a.allocation_id > 1
           /\ \A b \in allocations : b.allocation_id >= a.allocation_id

(* C24 as stated: delete_resource on a resource that has allocations     *)
(* succeeds, removes the resource and removes every allocation that      *)
(* references it.                                                        *)
C24_DeleteResourceCascades ==
    [][Serves("delete_resource") =>
          LET resource_id == resp'.args[1]
          IN  (/\ resource_id \in DOMAIN resources
               /\ \E a \in allocations : a.resource_id = resource_id)
                  => /\ resp'.status = 200
                     /\ resource_id \notin DOMAIN resources'
                     /\ allocations' =
                            {a \in allocations : a.resource_id # resource_id}]_vars

(* C24 amended: a delete_resource that succeeds removes the resource and *)
(* nothing else, and afterwards no allocation references the resource:   *)
(* there is nothing to cascade to, since the request is refused while    *)
(* the resource has allocations.                                         *)
C24_DeletedResourceHasNoAllocations ==
    [][(Serves("delete_resource") /\ resp'.status = 200) =>
          LET resource_id == resp'.args[1]
          IN  /\ resource_id \notin DOMAIN resources'
              /\ \A r \in DOMAIN resources \ {resource_id} :
                     r \in DOMAIN resources' /\ resources'[r] = resources[r]
              /\ \A a \in allocations' : a.resource_id # resource_id
              /\ allocations' = allocations
              /\ events' = events]_vars

(* A resource was deleted while another resource has allocations *)
C24_Witness ==
    /\ resp.op = "delete_resource"
    /\ resp.status = 200
    /\ \E a \in allocations : a.resource_id \in DOMAIN resources

(* C25: in every state reachable by any serial sequence of operations, *)
(* every allocation references an event that exists and a resource     *)
(* that exists.                                                        *)
C25_AllocationsReferenceExistingRows ==
    \A a \in allocations :
        /\ a.event_id \in DOMAIN events
        /\ a.resource_id \in DOMAIN resources

(* C29: delete_resource on a resource that has at least one allocation  *)
(* fails and leaves the resource and all of its allocations unchanged;  *)
(* a resource is deleted only when it has no allocations.               *)
C29_AllocatedResourceIsNotDeleted ==
    [][Serves("delete_resource") =>
          LET resource_id == resp'.args[1]
              held == \E a \in allocations : a.resource_id = resource_id
          IN  /\ (resource_id \in DOMAIN resources /\ held)
                     => /\ resp'.status = 400
                        /\ resources' = resources
                        /\ allocations' = allocations
                        /\ events' = events
              /\ resources' # resources => ~held]_vars

(* The deletion of a resource that two events hold was refused *)
C29_Witness ==
    /\ resp.op = "delete_resource"
    /\ resp.status = 400
    /\ resp.args[1] \in DOMAIN resources
    /\ Cardinality(Holders(resp.args[1])) = 2

(* The conflict records checkConflict returns in the current state *)
ConflictSet(resource_id, start_time, end_time, exclude_event_id) ==
    Range(check_resource_conflict(resource_id, start_time, end_time,
                                  exclude_event_id).conflicts)

(* allocate(event_id, resource_id) would pass every check in the current state *)
WouldAllocate(event_id, resource_id) ==
    create_allocation_check(event_id, resource_id).proceed

(* C27: freeing a resource cannot create a conflict: for every resource,   *)
(* range [start, end) and exclusion, the conflict set checkConflict        *)
(* returns after a successful deallocate or delete_event is a subset of    *)
(* the one it returned before; an allocate that would have succeeded       *)
(* before still succeeds, and one that failed with ConflictDetected        *)
(* succeeds once no conflicting allocation is left.                        *)
C27_FreeingCreatesNoConflict ==
    [][((Serves("deallocate") \/ Serves("delete_event")) /\ resp'.status = 200) =>
          /\ \A r \in ResourceIds, s \in Times, e \in Times, x \in EventIds \cup {None} :
                 s < e => /\ ConflictSet(r, s, e, x)' \subseteq ConflictSet(r, s, e, x)
                          /\ ConflictSet(r, s, e, x) = {}
                                 => ConflictSet(r, s, e, x)' = {}
          /\ \A ev \in DOMAIN events', r \in DOMAIN resources' :
                 /\ WouldAllocate(ev, r) => WouldAllocate(ev, r)'
                 /\ (/\ ~HasAllocation(ev, r)'
                     /\ ConflictSet(r, events[ev].start_time,
                                     events[ev].end_time, None)' = {})
                        => WouldAllocate(ev, r)']_vars

(* An allocation was removed, an event overlapping another that does not *)
(* hold the resource can be allocated to it, and allocations remain      *)
C27_Witness ==
    /\ resp.op = "deallocate"
    /\ resp.status = 200
    /\ \E ev \in DOMAIN events, r \in DOMAIN resources :
           /\ WouldAllocate(ev, r)
           /\ \E other \in DOMAIN events \ Holders(r) :
                  other # ev /\ Overlaps(events[other], events[ev])
    /\ allocations # {}

(* Two finished allocate requests of the two threads for the same pair *)
SamePairAllocates(w1, w2) ==
    /\ w1 # w2
    /\ res[w1].op = "allocate"
    /\ res[w2].op = "allocate"
    /\ res[w1].args = res[w2].args

(* C30: of two concurrent allocate calls for the same (event, resource)    *)
(* pair at most one allocation row is persisted: the second commit is      *)
(* rejected by the unique constraint and rolled back, and its caller gets  *)
(* an error.                                                               *)
C30_UniquePairUnderConcurrency ==
    /\ \A a, b \in allocations :
           (a.event_id = b.event_id /\ a.resource_id = b.resource_id) => a = b
    /\ \A w1, w2 \in Workers :
           (SamePairAllocates(w1, w2) /\ res[w1].status = 201)
               => /\ res[w2].status \in {409, 500}
                  /\ res[w2].status = 409 => IsAlreadyAllocated(res[w2])
                  /\ Cardinality(RowsFor(allocations, res[w1].args[1],
                                         res[w1].args[2])) = 1

(* Both threads passed the checks for the same pair; one committed, the *)
(* other was rejected at its commit                                     *)
C30_Witness ==
    \E w1, w2 \in Workers :
        /\ SamePairAllocates(w1, w2)
        /\ res[w1].status = 201
        /\ res[w2].status = 500
        /\ res[w1].body.allocation \in allocations

(* C26: when the commit of an allocate or allocateBatch fails, every      *)
(* insertion made by that call is rolled back, and the caller receives an *)
(* error of a category distinct from NotFound, AlreadyAllocated and       *)
(* ConflictDetected.                                                      *)
C26_FailedCommitRollsBack ==
    [][\A w \in Workers :
          /\ (res[w].status # 500 /\ res'[w].status = 500)
                 => /\ allocations' = allocations
                    /\ res'[w].error = "IntegrityError"
                    /\ ~IsNotFound(res'[w], "Event not found")
                    /\ ~IsNotFound(res'[w], "Resource not found")
                    /\ ~IsAlreadyAllocated(res'[w])
                    /\ ~IsConflictDetected(res'[w])
          /\ (/\ pc[w] = "commit"
              /\ pc'[w] = "done"
              /\ \E i \in DOMAIN req[w].resource_ids :
                     /\ req[w].op = "allocate" \/ req[w].resource_ids[i] \in Range(req[w].allocated)
                     /\ UniqueViolation(allocations, req[w].event_id,
                                        req[w].resource_ids[i]))
                 => res'[w].status = 500]_vars

(* A batch that had added two rows failed at its commit on the second of *)
(* them, and the first is not in the table                               *)
C26_Witness ==
    \E w \in Workers :
        /\ res[w].op = "allocateBatch"
        /\ res[w].status = 500
        /\ Len(req[w].allocated) = 2
        /\ RowsFor(allocations, req[w].event_id, req[w].allocated[1]) = {}
        /\ RowsFor(allocations, req[w].event_id, req[w].allocated[2]) # {}

(* Event event_id holds resource_id and another event that holds it *)
(* overlaps event_id                                                 *)
DoubleBooked(event_id, resource_id) ==
    /\ event_id \in DOMAIN events
    /\ HasAllocation(event_id, resource_id)
    /\ ConflictsWithOther(event_id, resource_id)

(* The (event, resource) pairs the report has an entry for *)
ReportedPairs(conflicts) ==
    {<<conflicts[i].event_id, conflicts[i].resource_id>> : i \in DOMAIN conflicts}

(* C28: the conflicts report lists an entry for (event E, resource R) if    *)
(* and only if E holds an allocation to R and some other event holding an   *)
(* allocation to R overlaps E; hence the report is empty exactly when no    *)
(* resource is double booked, and every double booking appears from both    *)
(* events' sides.                                                           *)
C28_ReportListsDoubleBookings ==
    resp.op = "conflicts_report" =>
        /\ resp.status = 200
        /\ ReportedPairs(resp.body.conflicts)
               = {p \in EventIds \X ResourceIds : DoubleBooked(p[1], p[2])}
        /\ resp.body.conflicts_found = Len(resp.body.conflicts)
        /\ (resp.body.conflicts = <<>>) <=>
               (\A r \in ResourceIds : \A e1, e2 \in Holders(r) :
                    e1 # e2 => ~Overlaps(events[e1], events[e2]))
        /\ \A i \in DOMAIN resp.body.conflicts :
               \A j \in DOMAIN resp.body.conflicts[i].conflicting_events :
                   <<resp.body.conflicts[i].conflicting_events[j].event_id,
                     resp.body.conflicts[i].resource_id>>
                       \in ReportedPairs(resp.body.conflicts)

(* Some resource other than resource_id has the name *)
NameTaken(resource_name, resource_id) ==
    \E r \in DOMAIN resources \ {resource_id} :
        resources[r].resource_name = resource_name

(* C31: in every state reachable by any serial sequence of create_resource *)
(* and update_resource calls no two distinct resources have the same       *)
(* resource_name; a create or rename that would duplicate a name is        *)
(* rejected and leaves the resources unchanged.                            *)
C31_ResourceNamesAreUnique ==
    /\ [](\A r1, r2 \in DOMAIN resources :
             r1 # r2 => resources[r1].resource_name # resources[r2].resource_name)
    /\ [][/\ (Serves("create_resource") /\ NameTaken(resp'.args[1], None))
                => /\ resp'.status \in {400, 409}
                   /\ resources' = resources
          /\ (/\ Serves("update_resource")
              /\ resp'.args[1] \in DOMAIN resources
              /\ resp'.args[2] # NoName
              /\ NameTaken(resp'.args[2], resp'.args[1]))
                => /\ resp'.status = 409
                   /\ resources' = resources]_vars

(* A rename to the name of the other resource was refused *)
C31_Witness ==
    /\ resp.op = "update_resource"
    /\ resp.status = 409
    /\ Cardinality(DOMAIN resources) = 2
    /\ resources[resp.args[1]].resource_name # resp.args[2]

====
